---- MODULE Spec2Model ----
(***************************************************************************)
(* A model of nodedns: the NodeStore of pkg/k8s (membership table, the     *)
(* internal/external records derived from it, change notification) and the *)
(* Client of pkg/dns (UpdateDNS against the records of a zone).            *)
(*                                                                         *)
(* Texts that the code sorts or compares (map keys built with              *)
(* net.IP.String) are sequences of ASCII codes, so that sort.Strings is    *)
(* the byte-wise order Go uses.  A net.IP is a sequence of bytes of        *)
(* length 0 (nil), 4 or 16.                                                *)
(***************************************************************************)
EXTENDS Integers, Sequences, FiniteSets, TLC

VARIABLES
    nodes,      \* NodeStore.nodes: map from node name to Node
    lock,       \* NodeStore.Mutex: the process holding it, or NoProc
    pc,         \* per process: its position in Add/Update/Delete/Replace/Resync
    op,         \* per process: the operation it runs
    arg,        \* per process: the argument of the operation (obj, or objs)
    node,       \* per process: the local `node` of Add/Update/Delete
    changes,    \* per process: the local `changes` ([]Record) handed to notify
    sent,       \* per process: the Records OnChange has been called with so far
    ctxDone,    \* per process: whether the operation's context (startOp) has expired
    ret,        \* per process: what the operation returned to its caller
    view,       \* the consumer of OnChange: per kind, the last Record it took,
                \* for as long as it has taken every Record
    missed,     \* the consumer of OnChange: whether a Record was not taken
    zone,       \* the provider: the records of the zone (godo.DomainRecord)
    nextID,     \* the provider: the id the next created record gets
    links,      \* the provider: whether its list responses carry "links"
    dpc,        \* UpdateDNS: its position (Idle, Fetching, ..., Done, Failed)
    record,     \* UpdateDNS: the parameter `record`
    addresses,  \* UpdateDNS: the parameter `addresses`
    cancelled,  \* UpdateDNS: whether ctx is done
    page,       \* getRecords: the local `page`
    existing,   \* getRecords: the local `result`, then `existing` of UpdateDNS
    toCreate,   \* UpdateDNS: the part of toCreate not yet created
    toDelete,   \* UpdateDNS: the part of toDelete not yet deleted
    err,        \* UpdateDNS: the error returned
    calls,      \* the provider calls the running UpdateDNS has made so far
    history     \* the UpdateDNS calls that are over: record, addresses, err

storeVars ==
    <<nodes, lock, pc, op, arg, node, changes, sent, ctxDone, ret, view, missed>>

dnsVars ==
    <<zone, nextID, links, dpc, record, addresses, cancelled, page, existing,
      toCreate, toDelete, err, calls, history>>

vars == <<storeVars, dnsVars>>

(***************************************************************************)
(* Bounds of the model.                                                    *)
(***************************************************************************)
MaxReplaceLen == 2

Procs == {"p1", "p2"}
SeqProcs == {"p1"}
NoProc == "none"

(***************************************************************************)
(* net.IP                                                                  *)
(***************************************************************************)
NilIP == <<>>

v4InV6Prefix == <<0, 0, 0, 0, 0, 0, 0, 0, 0, 0, 255, 255>>

\* net.IPv4(a, b, c, d): the 16-byte form of an IPv4 address.
IPv4(a, b, c, d) == v4InV6Prefix \o <<a, b, c, d>>

\* net.IP.To4: the 4-byte form, or nil when ip is not an IPv4 address.
To4(ip) ==
    IF Len(ip) = 4 THEN ip
    ELSE IF Len(ip) = 16 /\ SubSeq(ip, 1, 12) = v4InV6Prefix THEN SubSeq(ip, 13, 16)
    ELSE NilIP

\* net.IP.To16: the 16-byte form, or nil when ip has a wrong length.
To16(ip) ==
    IF Len(ip) = 4 THEN IPv4(ip[1], ip[2], ip[3], ip[4])
    ELSE IF Len(ip) = 16 THEN ip
    ELSE NilIP

\* net.IP.Equal: a 4-byte and a 16-byte form of one IPv4 address are equal.
IPEqual(x, y) ==
    IF Len(x) = Len(y) THEN x = y
    ELSE IF Len(x) = 4 /\ Len(y) = 16 THEN SubSeq(y, 1, 12) = v4InV6Prefix /\ SubSeq(y, 13, 16) = x
    ELSE IF Len(x) = 16 /\ Len(y) = 4 THEN SubSeq(x, 1, 12) = v4InV6Prefix /\ SubSeq(x, 13, 16) = y
    ELSE FALSE

\* The ASCII code of a decimal or lower-case hexadecimal digit.
DigitCode(d) == IF d < 10 THEN 48 + d ELSE 87 + d

\* The decimal text of a byte, without leading zeros.
Decimal(b) ==
    IF b >= 100 THEN <<DigitCode(b \div 100), DigitCode((b \div 10) % 10), DigitCode(b % 10)>>
    ELSE IF b >= 10 THEN <<DigitCode(b \div 10), DigitCode(b % 10)>>
    ELSE <<DigitCode(b)>>

\* The lower-case hexadecimal text of a 16-bit group, without leading zeros.
Hex(g) ==
    IF g >= 4096 THEN <<DigitCode(g \div 4096), DigitCode((g \div 256) % 16), DigitCode((g \div 16) % 16), DigitCode(g % 16)>>
    ELSE IF g >= 256 THEN <<DigitCode(g \div 256), DigitCode((g \div 16) % 16), DigitCode(g % 16)>>
    ELSE IF g >= 16 THEN <<DigitCode(g \div 16), DigitCode(g % 16)>>
    ELSE <<DigitCode(g)>>

\* The eight 16-bit groups of a 16-byte address.
Groups(ip) == [i \in 1..8 |-> ip[2 * i - 1] * 256 + ip[2 * i]]

\* The length of the run of zero groups of g that starts at group i.
RECURSIVE ZeroRun(_, _)
ZeroRun(g, i) == IF i > 8 \/ g[i] # 0 THEN 0 ELSE 1 + ZeroRun(g, i + 1)

\* The first longest run of at least two zero groups, as <<start, length>>;
\* <<0, 0>> when there is none ("::" never shortens a single zero group).
LongestZeroRun(g) ==
    LET best == CHOOSE i \in 1..8 :
                    /\ \A j \in 1..8 : ZeroRun(g, j) <= ZeroRun(g, i)
                    /\ \A j \in 1..(i - 1) : ZeroRun(g, j) < ZeroRun(g, i)
    IN  IF ZeroRun(g, best) >= 2 THEN <<best, ZeroRun(g, best)>> ELSE <<0, 0>>

\* The text of groups i..8 of an IPv6 address, "::" standing for the run z.
RECURSIVE FormatGroups(_, _, _)
FormatGroups(g, z, i) ==
    IF i > 8 THEN <<>>
    ELSE IF i = z[1] THEN <<58, 58>> \o FormatGroups(g, z, i + z[2])
    ELSE (IF i > 1 /\ i # z[1] + z[2] THEN <<58>> ELSE <<>>)
         \o Hex(g[i]) \o FormatGroups(g, z, i + 1)

\* net.IP.String: "<nil>" for a nil address, dotted decimal for an IPv4
\* address in either form, the shortened IPv6 text otherwise.
IPString(ip) ==
    IF Len(ip) = 0 THEN <<60, 110, 105, 108, 62>>
    ELSE IF To4(ip) # NilIP
        THEN LET p == To4(ip)
             IN  Decimal(p[1]) \o <<46>> \o Decimal(p[2]) \o <<46>> \o Decimal(p[3]) \o <<46>> \o Decimal(p[4])
    ELSE IF Len(ip) # 16 THEN <<63>>
    ELSE FormatGroups(Groups(ip), LongestZeroRun(Groups(ip)), 1)

\* net.ParseIP on the address texts of the model: the 16-byte address, or
\* nil when the text is not an IP address.
ParseIP(s) ==
    CASE s = "42.0.0.2"        -> IPv4(42, 0, 0, 2)
      [] s = "::ffff:42.0.0.2" -> IPv4(42, 0, 0, 2)
      [] s = "42.0.0.123"      -> IPv4(42, 0, 0, 123)
      [] s = "10.0.0.1"        -> IPv4(10, 0, 0, 1)
      [] s = "fd00::1"         -> <<253, 0, 0, 0, 0, 0, 0, 0, 0, 0, 0, 0, 0, 0, 0, 1>>
      [] OTHER                 -> NilIP

\* The byte-wise order of Go strings (the order of sort.Strings).
RECURSIVE StrLess(_, _)
StrLess(a, b) ==
    IF Len(b) = 0 THEN FALSE
    ELSE IF Len(a) = 0 THEN TRUE
    ELSE IF a[1] # b[1] THEN a[1] < b[1]
    ELSE StrLess(Tail(a), Tail(b))

(***************************************************************************)
(* Inputs: the *v1.Node objects the reflector hands to the store.          *)
(***************************************************************************)
Addr(t, a) == [Type |-> t, Address |-> a]
Cond(t, s) == [Type |-> t, Status |-> s]

\* Status.Addresses of the objects of the model: a duplicate and kinds that
\* are not IP addresses; an address whose text sorts before "42.0.0.2"; a
\* second text of 42.0.0.2 and an IPv6 address; a text that is no IP address.
AddrsDup ==
    <<Addr("Hostname", "host"), Addr("ExternalDNS", "host.example.com"),
      Addr("ExternalIP", "42.0.0.2"), Addr("ExternalIP", "42.0.0.2"),
      Addr("InternalIP", "10.0.0.1")>>
Addrs123 == <<Addr("ExternalIP", "42.0.0.123"), Addr("InternalIP", "10.0.0.1")>>
AddrsMapped == <<Addr("ExternalIP", "::ffff:42.0.0.2"), Addr("InternalIP", "fd00::1")>>
AddrsBad == <<Addr("ExternalIP", "not-an-ip"), Addr("InternalIP", "10.0.0.1")>>

AddrLists == {AddrsDup, Addrs123, AddrsMapped, AddrsBad}

\* Spec.Unschedulable and Status.Conditions of the objects of the model.
Schedulable == <<FALSE, <<>>>>
Ready == <<FALSE, <<Cond("MemoryPressure", "False"), Cond("Ready", "True")>>>>
Cordoned == <<TRUE, <<Cond("Ready", "True")>>>>
NotReady == <<FALSE, <<Cond("MemoryPressure", "False"), Cond("Ready", "False")>>>>
ReadyUnknown == <<FALSE, <<Cond("Ready", "Unknown")>>>>

NodeNames == {"host-1", "host-2"}

V1Node(name, sch, addrs) ==
    [IsNode |-> TRUE, Name |-> name, Unschedulable |-> sch[1],
     Conditions |-> sch[2], Addresses |-> addrs]

\* An object that is not a *v1.Node.
WrongType ==
    [IsNode |-> FALSE, Name |-> "", Unschedulable |-> FALSE,
     Conditions |-> <<>>, Addresses |-> <<>>]

\* The objects given to Add, Update and Delete when operations run one at a time.
RawNodes ==
    {V1Node(n, s, a) : n \in NodeNames, s \in {Schedulable, Ready}, a \in AddrLists}
        \cup {V1Node(n, s, a) : n \in NodeNames, s \in {Cordoned, NotReady, ReadyUnknown},
                                a \in {Addrs123}}
        \cup {WrongType}

\* The objects the lists given to Replace are made of.
ReplaceItems ==
    { V1Node("host-1", Schedulable, Addrs123),
      V1Node("host-1", Ready, AddrsMapped),
      V1Node("host-2", Schedulable, AddrsDup),
      V1Node("host-2", Cordoned, Addrs123),
      WrongType }

RECURSIVE SeqsUpTo(_, _)
SeqsUpTo(S, n) ==
    IF n = 0 THEN {<<>>}
    ELSE SeqsUpTo(S, n - 1) \cup {Append(s, x) : s \in {t \in SeqsUpTo(S, n - 1) : Len(t) = n - 1}, x \in S}

ReplaceLists == SeqsUpTo(ReplaceItems, MaxReplaceLen)

\* The inputs of the operations that run concurrently.
ConcRawNodes == {V1Node("host-1", Schedulable, Addrs123), V1Node("host-2", Ready, AddrsDup)}

ConcReplaceLists == {<<>>}

(***************************************************************************)
(* toNode                                                                  *)
(***************************************************************************)
Node(name, internal, external) == [Name |-> name, Internal |-> internal, External |-> external]

\* The loop over n.Status.Addresses: the addresses of type t, parsed, in order.
RECURSIVE AddressesOfType(_, _)
AddressesOfType(addrs, t) ==
    IF addrs = <<>> THEN <<>>
    ELSE (IF Head(addrs).Type = t THEN <<ParseIP(Head(addrs).Address)>> ELSE <<>>)
         \o AddressesOfType(Tail(addrs), t)

\* toNode taking a node for not ready only when Ready is "False".
toNodeReadyUnlessFalse(obj) ==
    IF ~obj.IsNode THEN Node("", <<>>, <<>>)
    ELSE IF obj.Unschedulable THEN Node(obj.Name, <<>>, <<>>)
    ELSE IF \E i \in 1..Len(obj.Conditions) :
                obj.Conditions[i].Type = "Ready" /\ obj.Conditions[i].Status = "False"
        THEN Node(obj.Name, <<>>, <<>>)
    ELSE Node(obj.Name,
              AddressesOfType(obj.Addresses, "InternalIP"),
              AddressesOfType(obj.Addresses, "ExternalIP"))

toNode(obj) ==
    IF ~obj.IsNode THEN Node("", <<>>, <<>>)
    ELSE IF obj.Unschedulable THEN Node(obj.Name, <<>>, <<>>)
    ELSE IF \E i \in 1..Len(obj.Conditions) :
                obj.Conditions[i].Type = "Ready" /\ obj.Conditions[i].Status # "True"
        THEN Node(obj.Name, <<>>, <<>>)
    ELSE Node(obj.Name,
              AddressesOfType(obj.Addresses, "InternalIP"),
              AddressesOfType(obj.Addresses, "ExternalIP"))

(***************************************************************************)
(* Records: externalRecord, internalRecord, cleanupRecord                  *)
(***************************************************************************)
Record(isInternal, ips) == [IsInternal |-> isInternal, IPs |-> ips]

\* The orders in which a range over a map with key set S can visit the keys.
Orders(S) ==
    {o \in [1..Cardinality(S) -> S] : \A i, j \in 1..Cardinality(S) : o[i] = o[j] => i = j}

\* The key cleanupRecord files an address under.
DedupKey(addr) == IPString(To16(addr))

\* sort.Strings on the keys of the dedup map.
RECURSIVE SortStrings(_)
SortStrings(keys) ==
    IF keys = {} THEN <<>>
    ELSE LET least == CHOOSE k \in keys : \A other \in keys \ {k} : StrLess(k, other)
         IN  <<least>> \o SortStrings(keys \ {least})

\* cleanupRecord without the dedup map: every address, in the order of the keys.
RECURSIVE AllOfKeys(_, _)
AllOfKeys(ips, keys) ==
    IF keys = <<>> THEN <<>>
    ELSE SelectSeq(ips, LAMBDA a : DedupKey(a) = Head(keys)) \o AllOfKeys(ips, Tail(keys))

cleanupRecordNoDedup(r) ==
    Record(r.IsInternal,
           AllOfKeys(r.IPs, SortStrings({DedupKey(r.IPs[i]) : i \in 1..Len(r.IPs)})))

\* cleanupRecord without sort.Strings: one address per key, in the order in
\* which the addresses come.
RECURSIVE LastPerKey(_)
LastPerKey(ips) ==
    IF ips = <<>> THEN <<>>
    ELSE IF \E j \in 2..Len(ips) : DedupKey(ips[j]) = DedupKey(ips[1])
        THEN LastPerKey(Tail(ips))
    ELSE <<Head(ips)>> \o LastPerKey(Tail(ips))

cleanupRecordNoSort(r) == Record(r.IsInternal, LastPerKey(r.IPs))

\* cleanupRecord: one address per key (the last one filed under it), in the
\* order of the sorted keys.
cleanupRecord(r) ==
    LET ips == r.IPs
        keySet == {DedupKey(ips[i]) : i \in 1..Len(ips)}
        dedup == [k \in keySet |->
                    ips[CHOOSE i \in 1..Len(ips) :
                            /\ DedupKey(ips[i]) = k
                            /\ \A j \in (i + 1)..Len(ips) : DedupKey(ips[j]) # k]]
        keys == SortStrings(keySet)
    IN  Record(r.IsInternal, [i \in 1..Len(keys) |-> dedup[keys[i]]])

\* The concatenation of the External (Internal) lists of the nodes, visited in order o.
RECURSIVE Gather(_, _, _)
Gather(tbl, o, internal) ==
    IF o = <<>> THEN <<>>
    ELSE (IF internal THEN tbl[Head(o)].Internal ELSE tbl[Head(o)].External)
         \o Gather(tbl, Tail(o), internal)

\* externalRecord with the map visited in order o.
externalRecord(tbl, o) == cleanupRecord(Record(FALSE, Gather(tbl, o, FALSE)))

\* internalRecord with the map visited in order o.
internalRecord(tbl, o) == cleanupRecord(Record(TRUE, Gather(tbl, o, TRUE)))

\* What externalRecord (internalRecord) can return for a table, over all
\* the orders the map iteration can take.
externalRecords(tbl) == {externalRecord(tbl, o) : o \in Orders(DOMAIN tbl)}
internalRecords(tbl) == {internalRecord(tbl, o) : o \in Orders(DOMAIN tbl)}

(***************************************************************************)
(* mutateNodes                                                             *)
(***************************************************************************)
\* cmp.Diff(x, y) == "" on two Records: the flags agree and the address
\* lists agree element by element under net.IP.Equal.
RecordEqual(x, y) ==
    /\ x.IsInternal = y.IsInternal
    /\ Len(x.IPs) = Len(y.IPs)
    /\ \A i \in 1..Len(x.IPs) : IPEqual(x.IPs[i], y.IPs[i])

\* DiffRecords without the comparisons: both records, changed or not.
DiffRecordsAlways(beforeInternal, beforeExternal, afterInternal, afterExternal) ==
    <<afterExternal, afterInternal>>

\* DiffRecords handing out the snapshots taken before the mutation.
DiffRecordsStale(beforeInternal, beforeExternal, afterInternal, afterExternal) ==
    (IF ~RecordEqual(beforeExternal, afterExternal) THEN <<beforeExternal>> ELSE <<>>)
        \o (IF ~RecordEqual(beforeInternal, afterInternal) THEN <<beforeInternal>> ELSE <<>>)

\* DiffRecords stopping at the first projection that changed.
DiffRecordsFirstOnly(beforeInternal, beforeExternal, afterInternal, afterExternal) ==
    IF ~RecordEqual(beforeExternal, afterExternal) THEN <<afterExternal>>
    ELSE IF ~RecordEqual(beforeInternal, afterInternal) THEN <<afterInternal>>
    ELSE <<>>

\* The tail of mutateNodes: the records to notify, from the four snapshots,
\* under the names the code gives them.
DiffRecords(beforeInternal, beforeExternal, afterInternal, afterExternal) ==
    (IF ~RecordEqual(beforeExternal, afterExternal) THEN <<afterExternal>> ELSE <<>>)
        \o (IF ~RecordEqual(beforeInternal, afterInternal) THEN <<afterInternal>> ELSE <<>>)

\* nodes[name] = n
Put(tbl, n) == [k \in DOMAIN tbl \cup {n.Name} |-> IF k = n.Name THEN n ELSE tbl[k]]

\* delete(nodes, name)
Remove(tbl, name) == [k \in DOMAIN tbl \ {name} |-> tbl[k]]

EmptyTable == [k \in {} |-> Node("", <<>>, <<>>)]

\* The loop of Replace: newNodes[node.Name] = node for each obj of objs, in order.
RECURSIVE BuildNodes(_, _)
BuildNodes(tbl, objs) ==
    IF objs = <<>> THEN tbl ELSE BuildNodes(Put(tbl, toNode(Head(objs))), Tail(objs))

\* The function f, with a Replace that keeps the members not in objs.
MutationReplaceMerges(o, n, objs, tbl) ==
    CASE o \in {"add", "update"} -> Put(tbl, n)
      [] o = "delete"            -> Remove(tbl, n.Name)
      [] o = "replace"           -> BuildNodes(tbl, objs)

\* The function f that Add, Update, Delete and Replace give to mutateNodes.
Mutation(o, n, objs, tbl) ==
    CASE o \in {"add", "update"} -> Put(tbl, n)
      [] o = "delete"            -> Remove(tbl, n.Name)
      [] o = "replace"           -> BuildNodes(EmptyTable, objs)

(***************************************************************************)
(* The store and the operations on it                                      *)
(***************************************************************************)
NoArg == <<>>
NoNode == Node("", <<>>, <<>>)
MutatingOps == {"add", "update", "delete", "replace"}

InitStore ==
    /\ nodes = EmptyTable
    /\ lock = NoProc
    /\ pc = [p \in Procs |-> "idle"]
    /\ op = [p \in Procs |-> "none"]
    /\ arg = [p \in Procs |-> NoArg]
    /\ node = [p \in Procs |-> NoNode]
    /\ changes = [p \in Procs |-> <<>>]
    /\ sent = [p \in Procs |-> <<>>]
    /\ ctxDone = [p \in Procs |-> FALSE]
    /\ ret = [p \in Procs |-> "none"]
    /\ view = [k \in BOOLEAN |-> <<>>]
    /\ missed = FALSE

\* Add, Update, Delete: startOp, then node := toNode(obj).
StartNodeOp(p, ops, objs) ==
    /\ pc[p] = "idle"
    /\ \E o \in ops, obj \in objs :
        /\ op' = [op EXCEPT ![p] = o]
        /\ arg' = [arg EXCEPT ![p] = obj]
        /\ node' = [node EXCEPT ![p] = toNode(obj)]
    /\ pc' = [pc EXCEPT ![p] = "mutate"]
    /\ UNCHANGED <<nodes, lock, changes, sent, ctxDone, ret>>
    /\ UNCHANGED dnsVars
    /\ UNCHANGED <<view, missed>>

\* Replace: startOp.
StartReplace(p, lists) ==
    /\ pc[p] = "idle"
    /\ \E objs \in lists : arg' = [arg EXCEPT ![p] = objs]
    /\ op' = [op EXCEPT ![p] = "replace"]
    /\ pc' = [pc EXCEPT ![p] = "mutate"]
    /\ UNCHANGED <<nodes, lock, node, changes, sent, ctxDone, ret>>
    /\ UNCHANGED dnsVars
    /\ UNCHANGED <<view, missed>>

\* Resync: startOp.
StartResync(p) ==
    /\ pc[p] = "idle"
    /\ op' = [op EXCEPT ![p] = "resync"]
    /\ pc' = [pc EXCEPT ![p] = "resync_ext"]
    /\ UNCHANGED <<nodes, lock, arg, node, changes, sent, ctxDone, ret>>
    /\ UNCHANGED dnsVars
    /\ UNCHANGED <<view, missed>>

\* s.Lock() that does not wait for the holder of the lock.
LockWithoutWaiting(p) ==
    /\ pc[p] = "mutate"
    /\ lock' = p
    /\ pc' = [pc EXCEPT ![p] = "locked"]
    /\ UNCHANGED <<nodes, op, arg, node, changes, sent, ctxDone, ret>>
    /\ UNCHANGED dnsVars
    /\ UNCHANGED <<view, missed>>

\* mutateNodes: s.Lock().
Lock(p) ==
    /\ pc[p] = "mutate"
    /\ lock = NoProc
    /\ lock' = p
    /\ pc' = [pc EXCEPT ![p] = "locked"]
    /\ UNCHANGED <<nodes, op, arg, node, changes, sent, ctxDone, ret>>
    /\ UNCHANGED dnsVars
    /\ UNCHANGED <<view, missed>>

\* mutateNodes that returns with the lock still held.
mutateNodesKeepingLock(p) ==
    /\ pc[p] = "locked"
    /\ lock = p
    /\ LET after == Mutation(op[p], node[p], arg[p], nodes)
       IN  /\ nodes' = after
           /\ \E beforeInternal \in externalRecords(nodes), beforeExternal \in internalRecords(nodes),
                 afterInternal \in externalRecords(after), afterExternal \in internalRecords(after) :
                changes' = [changes EXCEPT ![p] =
                    DiffRecords(beforeInternal, beforeExternal, afterInternal, afterExternal)]
    /\ arg' = [arg EXCEPT ![p] = NoArg]
    /\ pc' = [pc EXCEPT ![p] = "notify"]
    /\ UNCHANGED <<lock, op, node, sent, ctxDone, ret>>
    /\ UNCHANGED dnsVars
    /\ UNCHANGED <<view, missed>>

\* mutateNodes under the lock: the snapshots before, f, the snapshots
\* after, the diff, and the deferred s.Unlock().
mutateNodes(p) ==
    /\ pc[p] = "locked"
    /\ lock = p
    /\ LET after == Mutation(op[p], node[p], arg[p], nodes)
       IN  /\ nodes' = after
           /\ \E beforeInternal \in externalRecords(nodes), beforeExternal \in internalRecords(nodes),
                 afterInternal \in externalRecords(after), afterExternal \in internalRecords(after) :
                changes' = [changes EXCEPT ![p] =
                    DiffRecords(beforeInternal, beforeExternal, afterInternal, afterExternal)]
    /\ lock' = NoProc
    /\ arg' = [arg EXCEPT ![p] = NoArg]
    /\ pc' = [pc EXCEPT ![p] = "notify"]
    /\ UNCHANGED <<op, node, sent, ctxDone, ret>>
    /\ UNCHANGED dnsVars
    /\ UNCHANGED <<view, missed>>

\* Resync: ext := s.externalRecord(), without the lock.
ResyncExternal(p) ==
    /\ pc[p] = "resync_ext"
    /\ \E ext \in externalRecords(nodes) : changes' = [changes EXCEPT ![p] = <<ext>>]
    /\ pc' = [pc EXCEPT ![p] = "resync_int"]
    /\ UNCHANGED <<nodes, lock, op, arg, node, sent, ctxDone, ret>>
    /\ UNCHANGED dnsVars
    /\ UNCHANGED <<view, missed>>

\* Resync putting the internal record first.
ResyncInternalFirst(p) ==
    /\ pc[p] = "resync_int"
    /\ \E int \in internalRecords(nodes) : changes' = [changes EXCEPT ![p] = <<int>> \o changes[p]]
    /\ pc' = [pc EXCEPT ![p] = "notify"]
    /\ UNCHANGED <<nodes, lock, op, arg, node, sent, ctxDone, ret>>
    /\ UNCHANGED dnsVars
    /\ UNCHANGED <<view, missed>>

\* Resync: int := s.internalRecord(), without the lock.
ResyncInternal(p) ==
    /\ pc[p] = "resync_int"
    /\ \E int \in internalRecords(nodes) : changes' = [changes EXCEPT ![p] = Append(changes[p], int)]
    /\ pc' = [pc EXCEPT ![p] = "notify"]
    /\ UNCHANGED <<nodes, lock, op, arg, node, sent, ctxDone, ret>>
    /\ UNCHANGED dnsVars
    /\ UNCHANGED <<view, missed>>

\* notify making a new context for each call of s.OnChange.
CallOnChangeFreshContext(p) ==
    /\ pc[p] = "notify"
    /\ Len(sent[p]) < Len(changes[p])
    /\ pc' = [pc EXCEPT ![p] = "sink"]
    /\ ctxDone' = [ctxDone EXCEPT ![p] = FALSE]
    /\ UNCHANGED <<nodes, lock, op, arg, node, changes, sent, ret>>
    /\ UNCHANGED dnsVars
    /\ UNCHANGED <<view, missed>>

\* notify: the next iteration of the loop calls s.OnChange with the next change.
CallOnChange(p) ==
    /\ pc[p] = "notify"
    /\ Len(sent[p]) < Len(changes[p])
    /\ pc' = [pc EXCEPT ![p] = "sink"]
    /\ UNCHANGED <<nodes, lock, op, arg, node, changes, sent, ctxDone, ret>>
    /\ UNCHANGED dnsVars
    /\ UNCHANGED <<view, missed>>

\* The record OnChange is running with.
InSink(p) == changes[p][Len(sent[p]) + 1]

\* OnChange returns: the consumer took the request.
OnChangeAccepted(p) ==
    /\ pc[p] = "sink"
    /\ sent' = [sent EXCEPT ![p] = Append(sent[p], [Record |-> InSink(p), Accepted |-> TRUE])]
    /\ pc' = [pc EXCEPT ![p] = "notify"]
    /\ UNCHANGED <<nodes, lock, op, arg, node, changes, ctxDone, ret>>
    /\ UNCHANGED dnsVars
    /\ view' = IF missed THEN view
               ELSE [view EXCEPT ![InSink(p).IsInternal] = <<InSink(p)>>]
    /\ UNCHANGED missed

\* OnChange returns because the request's context expired before the
\* consumer took it.
OnChangeAbandoned(p) ==
    /\ pc[p] = "sink"
    /\ ctxDone[p]
    /\ sent' = [sent EXCEPT ![p] = Append(sent[p], [Record |-> InSink(p), Accepted |-> FALSE])]
    /\ pc' = [pc EXCEPT ![p] = "notify"]
    /\ UNCHANGED <<nodes, lock, op, arg, node, changes, ctxDone, ret>>
    /\ UNCHANGED dnsVars
    /\ missed' = TRUE
    /\ view' = [k \in BOOLEAN |-> <<>>]

\* The timeout of the context made by startOp elapses.  Only OnChange looks
\* at the context, so the step is taken while OnChange runs: a timeout that
\* elapsed earlier in the operation is seen there all the same.
Expire(p) ==
    /\ pc[p] = "sink"
    /\ ~ctxDone[p]
    /\ ctxDone' = [ctxDone EXCEPT ![p] = TRUE]
    /\ UNCHANGED <<nodes, lock, pc, op, arg, node, changes, sent, ret>>
    /\ UNCHANGED dnsVars
    /\ UNCHANGED <<view, missed>>

\* An operation that returns the error of its expired context.
ReturnValueCtxErr(p) == IF ctxDone[p] THEN "context deadline exceeded" ELSE "nil"

\* What Add, Update, Delete, Replace and Resync return.
ReturnValue(p) == "nil"

\* The operation returning before notify's loop is over.
ReturnEarly(p) ==
    /\ pc[p] = "notify"
    /\ ret' = [ret EXCEPT ![p] = ReturnValue(p)]
    /\ pc' = [pc EXCEPT ![p] = "done"]
    /\ UNCHANGED <<nodes, lock, op, arg, node, changes, sent, ctxDone>>
    /\ UNCHANGED dnsVars
    /\ UNCHANGED <<view, missed>>

\* notify's loop is over; the deferred func of startOp runs and the
\* operation returns.
Return(p) ==
    /\ pc[p] = "notify"
    /\ Len(sent[p]) = Len(changes[p])
    /\ ret' = [ret EXCEPT ![p] = ReturnValue(p)]
    /\ pc' = [pc EXCEPT ![p] = "done"]
    /\ UNCHANGED <<nodes, lock, op, arg, node, changes, sent, ctxDone>>
    /\ UNCHANGED dnsVars
    /\ UNCHANGED <<view, missed>>

\* The caller goes on; the locals of the call are gone.
Finish(p) ==
    /\ pc[p] = "done"
    /\ pc' = [pc EXCEPT ![p] = "idle"]
    /\ op' = [op EXCEPT ![p] = "none"]
    /\ arg' = [arg EXCEPT ![p] = NoArg]
    /\ node' = [node EXCEPT ![p] = NoNode]
    /\ changes' = [changes EXCEPT ![p] = <<>>]
    /\ sent' = [sent EXCEPT ![p] = <<>>]
    /\ ctxDone' = [ctxDone EXCEPT ![p] = FALSE]
    /\ ret' = [ret EXCEPT ![p] = "none"]
    /\ UNCHANGED <<nodes, lock>>
    /\ UNCHANGED dnsVars
    /\ UNCHANGED <<view, missed>>

\* The steps of an operation after its start.
Step(p) ==
    \/ Lock(p)
    \/ mutateNodes(p)
    \/ ResyncExternal(p)
    \/ ResyncInternal(p)
    \/ CallOnChange(p)
    \/ OnChangeAccepted(p)
    \/ OnChangeAbandoned(p)
    \/ Expire(p)
    \/ Return(p)
    \/ Finish(p)

(***************************************************************************)
(* pkg/dns: the records of the zone at the provider, and Client.UpdateDNS. *)
(* The data of a record (godo.DomainRecord.Data) is a text, a sequence of  *)
(* ASCII codes as net.IP.String makes it; names and types are strings.     *)
(***************************************************************************)
\* getRecords gives up after this many pages.
MaxPages == 100

\* The number of records the provider puts on one page of a list response
\* (PerPage in the request), and the number of UpdateDNS calls of a behaviour.
PageSize == 2
MaxCalls == 2

DomainRecord(id, type, name, data) == [ID |-> id, Type |-> type, Name |-> name, Data |-> data]

NodesName == "nodes.example.com"
OtherName == "other.example.com"

\* The values of `record`: a record name, or "" when the flag is not set.
RecordNames == {NodesName, ""}

FD001 == <<253, 0, 0, 0, 0, 0, 0, 0, 0, 0, 0, 0, 0, 0, 0, 1>>

\* The text "fd00:0:0:0:0:0:0:1": FD001 as net.IP.String does not write it.
FD001Long == <<102, 100, 48, 48, 58, 48, 58, 48, 58, 48, 58, 48, 58, 48, 58, 48, 58, 49>>

\* The values of `addresses`: none, one, a 4-byte and a 16-byte address, one
\* address twice (in both forms), an IPv6 address.
DesiredLists ==
    { <<>>,
      <<IPv4(10, 0, 0, 1)>>,
      <<<<10, 0, 0, 1>>, IPv4(10, 0, 0, 2)>>,
      <<IPv4(10, 0, 0, 2), <<10, 0, 0, 2>>>>,
      <<FD001>> }

\* The zones of the model: the record of testTransport; records of other
\* names and types among those of the name, on more than one page; two
\* records of the name with the same data; data in another text form.
ZoneEmpty == {}
ZoneTest == {DomainRecord(1, "A", NodesName, IPString(IPv4(10, 0, 0, 1)))}
ZoneMixed ==
    { DomainRecord(1, "A", NodesName, IPString(IPv4(10, 0, 0, 1))),
      DomainRecord(2, "A", OtherName, IPString(IPv4(10, 0, 0, 2))),
      DomainRecord(3, "TXT", NodesName, IPString(IPv4(10, 0, 0, 2))),
      DomainRecord(4, "AAAA", NodesName, IPString(FD001)) }
ZoneDup ==
    { DomainRecord(1, "A", NodesName, IPString(IPv4(10, 0, 0, 3))),
      DomainRecord(2, "A", NodesName, IPString(IPv4(10, 0, 0, 3))) }
ZoneLong == {DomainRecord(1, "AAAA", NodesName, FD001Long)}

\* A provider: its zone, and whether its list responses carry "links".
Provider(z, l) == [Zone |-> z, Links |-> l]

Providers ==
    {Provider(z, TRUE) : z \in {ZoneEmpty, ZoneTest, ZoneMixed, ZoneDup, ZoneLong}}
        \cup {Provider(ZoneTest, FALSE)}

\* The records of a zone in the order the provider lists them: by id.
RECURSIVE ByID(_)
ByID(S) ==
    IF S = {} THEN <<>>
    ELSE LET first == CHOOSE r \in S : \A q \in S : r.ID <= q.ID
         IN  <<first>> \o ByID(S \ {first})

\* The page of the provider that a request for `page` gets: godo leaves
\* page=0 out of the query, and the provider then answers with its page 1.
ProviderPage(p) == IF p = 0 THEN 1 ELSE p

\* recs of c.c.Domains.Records: the records on the requested page.
PageRecords(z, p) ==
    LET all == ByID(z)
        from == (ProviderPage(p) - 1) * PageSize + 1
        to == IF ProviderPage(p) * PageSize < Len(all) THEN ProviderPage(p) * PageSize ELSE Len(all)
    IN  SubSeq(all, from, to)

\* res.Links != nil && res.Links.IsLastPage(): the response carries links,
\* and they name no page after the requested one.
IsLastPage(z, l, p) == l /\ ProviderPage(p) * PageSize >= Cardinality(z)

NoRecords == [k \in {} |-> 0]

\* getRecords taking every A and AAAA record, whatever its name.
RECURSIVE CollectAnyName(_, _, _)
CollectAnyName(result, recs, name) ==
    IF recs = <<>> THEN result
    ELSE LET rec == Head(recs)
             next == IF rec.Type \in {"A", "AAAA"}
                     THEN [k \in DOMAIN result \cup {rec.Data} |->
                              IF k = rec.Data THEN rec.ID ELSE result[k]]
                     ELSE result
         IN  CollectAnyName(next, Tail(recs), name)

\* getRecords, the loop over recs: result[rec.Data] = rec.ID for the A and
\* AAAA records of the name.
RECURSIVE Collect(_, _, _)
Collect(result, recs, name) ==
    IF recs = <<>> THEN result
    ELSE LET rec == Head(recs)
             next == IF rec.Type \in {"A", "AAAA"} /\ rec.Name = name
                     THEN [k \in DOMAIN result \cup {rec.Data} |->
                              IF k = rec.Data THEN rec.ID ELSE result[k]]
                     ELSE result
         IN  Collect(next, Tail(recs), name)

\* diffDNS comparing the bytes of the desired addresses with the addresses
\* the existing texts stand for in 16-byte form.
diffDNSBytes(desired, existingMap) ==
    LET given == {desired[i] : i \in 1..Len(desired)}
        known == {k \in DOMAIN existingMap : \E a \in given : IPString(To16(a)) = k /\ Len(a) = 16}
        ids == {existingMap[ip] : ip \in DOMAIN existingMap \ known}
        create == SelectSeq(desired, LAMBDA a : ~(Len(a) = 16 /\ IPString(a) \in DOMAIN existingMap))
    IN  {[toDelete |-> d, toCreate |-> create] : d \in Orders(ids)}

\* diffDNS deleting every existing record and creating every desired one.
diffDNSReplaceAll(desired, existingMap) ==
    LET ids == {existingMap[ip] : ip \in DOMAIN existingMap}
    IN  {[toDelete |-> d, toCreate |-> desired] : d \in Orders(ids)}

\* diffDNS: the results it can return, one for each order in which the
\* range over toDeleteMap visits the ids (toDeleteAddrs, which is only
\* logged, is left out).
diffDNS(desired, existingMap) ==
    LET addrs == {IPString(desired[i]) : i \in 1..Len(desired)}
        toDeleteMap == {existingMap[ip] : ip \in {k \in DOMAIN existingMap : k \notin addrs}}
        create == SelectSeq(desired, LAMBDA addr : IPString(addr) \notin DOMAIN existingMap)
    IN  {[toDelete |-> d, toCreate |-> create] : d \in Orders(toDeleteMap)}

\* kind of UpdateDNS: "A" unless ip.To4() == nil.
Kind(ip) == IF To4(ip) = NilIP THEN "AAAA" ELSE "A"

InCall == dpc \in {"Fetching", "Diffing", "Creating", "Deleting"}

\* A client that has not been called, and the provider it talks to.
InitClient(providers) ==
    /\ \E pr \in providers :
        /\ zone = pr.Zone
        /\ links = pr.Links
        /\ nextID = Cardinality(pr.Zone) + 1
    /\ dpc = "Idle"
    /\ record = ""
    /\ addresses = <<>>
    /\ cancelled = FALSE
    /\ page = 0
    /\ existing = NoRecords
    /\ toCreate = <<>>
    /\ toDelete = <<>>
    /\ err = "none"
    /\ calls = <<>>
    /\ history = <<>>

\* UpdateDNS without the check of record == "".
UpdateDNSAlwaysFetches(names, lists) ==
    /\ \/ dpc = "Idle"
       \/ dpc \in {"Done", "Failed"} /\ Len(history) + 1 < MaxCalls
    /\ history' = IF dpc = "Idle" THEN history
                  ELSE Append(history, [record |-> record, addresses |-> addresses, err |-> err])
    /\ \E name \in names, desired \in lists :
        /\ record' = name
        /\ addresses' = desired
    /\ dpc' = "Fetching"
    /\ err' = "none"
    /\ cancelled' = FALSE
    /\ page' = 0
    /\ existing' = NoRecords
    /\ toCreate' = <<>>
    /\ toDelete' = <<>>
    /\ calls' = <<>>
    /\ UNCHANGED <<zone, nextID, links>>
    /\ UNCHANGED storeVars

\* UpdateDNS is called: with record == "" it returns nil at once, otherwise
\* it calls getRecords.
UpdateDNS(names, lists) ==
    /\ \/ dpc = "Idle"
       \/ dpc \in {"Done", "Failed"} /\ Len(history) + 1 < MaxCalls
    /\ history' = IF dpc = "Idle" THEN history
                  ELSE Append(history, [record |-> record, addresses |-> addresses, err |-> err])
    /\ \E name \in names, desired \in lists :
        /\ record' = name
        /\ addresses' = desired
        /\ IF name = "" THEN dpc' = "Done" /\ err' = "nil"
                        ELSE dpc' = "Fetching" /\ err' = "none"
    /\ cancelled' = FALSE
    /\ page' = 0
    /\ existing' = NoRecords
    /\ toCreate' = <<>>
    /\ toDelete' = <<>>
    /\ calls' = <<>>
    /\ UNCHANGED <<zone, nextID, links>>
    /\ UNCHANGED storeVars

\* ctx is cancelled, or its deadline passes, while UpdateDNS runs.
Cancel ==
    /\ InCall
    /\ ~cancelled
    /\ cancelled' = TRUE
    /\ UNCHANGED <<zone, nextID, links, dpc, record, addresses, page, existing,
                   toCreate, toDelete, err, calls, history>>
    /\ UNCHANGED storeVars

\* getRecords: one iteration of the loop, c.c.Domains.Records succeeding.
getRecords ==
    /\ dpc = "Fetching"
    /\ page < MaxPages
    /\ ~cancelled
    /\ existing' = Collect(existing, PageRecords(zone, page), record)
    /\ calls' = Append(calls, [Op |-> "list", Page |-> page, OK |-> TRUE,
                               Last |-> IsLastPage(zone, links, page)])
    /\ IF IsLastPage(zone, links, page)
        THEN dpc' = "Diffing" /\ page' = page
        ELSE dpc' = dpc /\ page' = page + 1
    /\ UNCHANGED <<zone, nextID, links, record, addresses, cancelled, toCreate,
                   toDelete, err, history>>
    /\ UNCHANGED storeVars

\* getRecords: c.c.Domains.Records returns an error (of the provider, or
\* that of ctx), which UpdateDNS returns.
getRecordsError ==
    /\ dpc = "Fetching"
    /\ page < MaxPages
    /\ calls' = Append(calls, [Op |-> "list", Page |-> page, OK |-> FALSE, Last |-> FALSE])
    /\ dpc' = "Failed"
    /\ err' = "get existing records"
    /\ UNCHANGED <<zone, nextID, links, record, addresses, cancelled, page, existing,
                   toCreate, toDelete, history>>
    /\ UNCHANGED storeVars

\* getRecords ending its loop without a last page, its error ignored.
getRecordsTooManyPagesIgnored ==
    /\ dpc = "Fetching"
    /\ page = MaxPages
    /\ dpc' = "Diffing"
    /\ UNCHANGED <<zone, nextID, links, record, addresses, cancelled, page, existing,
                   toCreate, toDelete, err, calls, history>>
    /\ UNCHANGED storeVars

\* getRecords: the loop ends without a last page.
getRecordsTooManyPages ==
    /\ dpc = "Fetching"
    /\ page = MaxPages
    /\ dpc' = "Failed"
    /\ err' = "get existing records: more than 100 pages!"
    /\ UNCHANGED <<zone, nextID, links, record, addresses, cancelled, page, existing,
                   toCreate, toDelete, calls, history>>
    /\ UNCHANGED storeVars

\* UpdateDNS: toDelete, toCreate, toDeleteAddrs := diffDNS(addresses, existing).
CallDiffDNS ==
    /\ dpc = "Diffing"
    /\ \E d \in diffDNS(addresses, existing) :
        /\ toDelete' = d.toDelete
        /\ toCreate' = d.toCreate
    /\ dpc' = "Creating"
    /\ UNCHANGED <<zone, nextID, links, record, addresses, cancelled, page, existing,
                   err, calls, history>>
    /\ UNCHANGED storeVars

\* The entry of `calls` for a CreateRecord call.
CreateCall(ip, ok) == [Op |-> "create", Type |-> Kind(ip), Data |-> IPString(ip), OK |-> ok]

\* CreateRecord going through although ctx is done.
CreateRecordIgnoringCtx ==
    /\ dpc = "Creating"
    /\ toCreate # <<>>
    /\ zone' = zone \cup {DomainRecord(nextID, Kind(Head(toCreate)), record, IPString(Head(toCreate)))}
    /\ nextID' = nextID + 1
    /\ calls' = Append(calls, CreateCall(Head(toCreate), TRUE))
    /\ toCreate' = Tail(toCreate)
    /\ UNCHANGED <<links, dpc, record, addresses, cancelled, page, existing, toDelete,
                   err, history>>
    /\ UNCHANGED storeVars

\* UpdateDNS, the loop over toCreate: c.c.Domains.CreateRecord succeeds.
CreateRecord ==
    /\ dpc = "Creating"
    /\ toCreate # <<>>
    /\ ~cancelled
    /\ zone' = zone \cup {DomainRecord(nextID, Kind(Head(toCreate)), record, IPString(Head(toCreate)))}
    /\ nextID' = nextID + 1
    /\ calls' = Append(calls, CreateCall(Head(toCreate), TRUE))
    /\ toCreate' = Tail(toCreate)
    /\ UNCHANGED <<links, dpc, record, addresses, cancelled, page, existing, toDelete,
                   err, history>>
    /\ UNCHANGED storeVars

\* A failed CreateRecord after which the loop goes on with the next address.
CreateRecordErrorSkipped ==
    /\ dpc = "Creating"
    /\ toCreate # <<>>
    /\ calls' = Append(calls, CreateCall(Head(toCreate), FALSE))
    /\ toCreate' = Tail(toCreate)
    /\ UNCHANGED <<zone, nextID, links, dpc, record, addresses, cancelled, page,
                   existing, toDelete, err, history>>
    /\ UNCHANGED storeVars

\* UpdateDNS, the loop over toCreate: c.c.Domains.CreateRecord returns an
\* error, which UpdateDNS returns.
CreateRecordError ==
    /\ dpc = "Creating"
    /\ toCreate # <<>>
    /\ calls' = Append(calls, CreateCall(Head(toCreate), FALSE))
    /\ dpc' = "Failed"
    /\ err' = "creating record"
    /\ UNCHANGED <<zone, nextID, links, record, addresses, cancelled, page, existing,
                   toCreate, toDelete, history>>
    /\ UNCHANGED storeVars

\* UpdateDNS: the loop over toCreate is over.
CreatesDone ==
    /\ dpc = "Creating"
    /\ toCreate = <<>>
    /\ dpc' = "Deleting"
    /\ UNCHANGED <<zone, nextID, links, record, addresses, cancelled, page, existing,
                   toCreate, toDelete, err, calls, history>>
    /\ UNCHANGED storeVars

\* The entry of `calls` for a DeleteRecord call; Data is the data of the
\* record of that id in the zone.
DeleteCall(id, ok) ==
    [Op |-> "delete", ID |-> id, Data |-> {r.Data : r \in {q \in zone : q.ID = id}}, OK |-> ok]

\* UpdateDNS, the loop over toDelete: c.c.Domains.DeleteRecord succeeds.
DeleteRecord ==
    /\ dpc = "Deleting"
    /\ toDelete # <<>>
    /\ ~cancelled
    /\ \E r \in zone : r.ID = Head(toDelete)
    /\ zone' = {r \in zone : r.ID # Head(toDelete)}
    /\ calls' = Append(calls, DeleteCall(Head(toDelete), TRUE))
    /\ toDelete' = Tail(toDelete)
    /\ UNCHANGED <<nextID, links, dpc, record, addresses, cancelled, page, existing,
                   toCreate, err, history>>
    /\ UNCHANGED storeVars

\* UpdateDNS, the loop over toDelete: c.c.Domains.DeleteRecord returns an
\* error, which UpdateDNS returns.
DeleteRecordError ==
    /\ dpc = "Deleting"
    /\ toDelete # <<>>
    /\ calls' = Append(calls, DeleteCall(Head(toDelete), FALSE))
    /\ dpc' = "Failed"
    /\ err' = "deleting record"
    /\ UNCHANGED <<zone, nextID, links, record, addresses, cancelled, page, existing,
                   toCreate, toDelete, history>>
    /\ UNCHANGED storeVars

\* UpdateDNS returning an error after its deletes although none failed.
UpdateDNSReturnsError ==
    /\ dpc = "Deleting"
    /\ toDelete = <<>>
    /\ dpc' = "Failed"
    /\ err' = "deleting record"
    /\ UNCHANGED <<zone, nextID, links, record, addresses, cancelled, page, existing,
                   toCreate, toDelete, calls, history>>
    /\ UNCHANGED storeVars

\* UpdateDNS: the loop over toDelete is over; return nil.
UpdateDNSReturnsNil ==
    /\ dpc = "Deleting"
    /\ toDelete = <<>>
    /\ dpc' = "Done"
    /\ err' = "nil"
    /\ UNCHANGED <<zone, nextID, links, record, addresses, cancelled, page, existing,
                   toCreate, toDelete, calls, history>>
    /\ UNCHANGED storeVars

(***************************************************************************)
(* Specifications                                                          *)
(***************************************************************************)
\* The store of main, and a client that is not called.
Init == InitStore /\ InitClient({Provider(ZoneEmpty, TRUE)})

\* Operations invoked concurrently by the processes.
Next ==
    \E p \in Procs :
        \/ StartNodeOp(p, {"add", "delete"}, ConcRawNodes)
        \/ StartReplace(p, ConcReplaceLists)
        \/ StartResync(p)
        \/ Step(p)

Spec == Init /\ [][Next]_vars

AllIdle == \A p \in Procs : pc[p] = "idle"

\* Operations invoked one at a time.
NextSeq ==
    \E p \in SeqProcs :
        \/ AllIdle /\ StartNodeOp(p, {"add", "update", "delete"}, RawNodes)
        \/ AllIdle /\ StartReplace(p, ReplaceLists)
        \/ AllIdle /\ StartResync(p)
        \/ Step(p)

SpecSeq == Init /\ [][NextSeq]_vars

\* The steps of Add, Update, Delete and Replace: Resync never runs.
MutStep(p) ==
    \/ Lock(p)
    \/ mutateNodes(p)
    \/ CallOnChange(p)
    \/ OnChangeAccepted(p)
    \/ OnChangeAbandoned(p)
    \/ Expire(p)
    \/ Return(p)
    \/ Finish(p)

\* Add, Delete and Replace called from two goroutines at once.
NextMut ==
    \E p \in Procs :
        \/ StartNodeOp(p, {"add", "delete"}, ConcRawNodes)
        \/ StartReplace(p, ConcReplaceLists)
        \/ MutStep(p)

SpecMut == Init /\ [][NextMut]_vars

\* The steps that the code of the store takes by itself: every step of an
\* operation but the return of OnChange, which is up to the consumer.
StoreStep(p) ==
    \/ Lock(p)
    \/ mutateNodes(p)
    \/ ResyncExternal(p)
    \/ ResyncInternal(p)
    \/ CallOnChange(p)
    \/ Return(p)

\* Add, Update, Delete and Resync invoked one at a time.
NextLive ==
    \E p \in SeqProcs :
        \/ AllIdle /\ StartNodeOp(p, {"add", "update", "delete"}, ConcRawNodes)
        \/ AllIdle /\ StartResync(p)
        \/ Step(p)

\* The store takes its steps and the timeout of a context elapses, but
\* nothing makes OnChange return.
SpecLive ==
    /\ Init /\ [][NextLive]_vars
    /\ \A p \in SeqProcs : WF_vars(StoreStep(p)) /\ WF_vars(Expire(p))

\* UpdateDNS called a first and a second time, nobody else changing the zone.
InitDNS == InitStore /\ InitClient(Providers)

NextDNS ==
    \/ UpdateDNS(RecordNames, DesiredLists)
    \/ Cancel
    \/ getRecords
    \/ getRecordsError
    \/ getRecordsTooManyPages
    \/ CallDiffDNS
    \/ CreateRecord
    \/ CreateRecordError
    \/ CreatesDone
    \/ DeleteRecord
    \/ DeleteRecordError
    \/ UpdateDNSReturnsNil

SpecDNS == InitDNS /\ [][NextDNS]_vars

(***************************************************************************)
(* Definitions the properties are stated with                              *)
(***************************************************************************)
\* The addresses the members of a table report for one kind of projection.
MemberAddrs(tbl, internal) ==
    UNION {LET l == IF internal THEN tbl[k].Internal ELSE tbl[k].External
           IN  {l[i] : i \in 1..Len(l)} : k \in DOMAIN tbl}

\* The content of a projection: the canonical (16-byte) forms of those addresses.
Content(tbl, internal) == {To16(a) : a \in MemberAddrs(tbl, internal)}

\* The address list is in strictly ascending order of the canonical texts.
Ascending(ips) ==
    \A i, j \in 1..Len(ips) : i < j => StrLess(IPString(To16(ips[i])), IPString(To16(ips[j])))

\* rec is the projection of its own kind of table tbl.
IsProjection(rec, tbl) ==
    /\ {To16(rec.IPs[i]) : i \in 1..Len(rec.IPs)} = Content(tbl, rec.IsInternal)
    /\ Ascending(rec.IPs)

\* The records of the requests OnChange has returned from.
Delivered(p) == [i \in 1..Len(sent[p]) |-> sent[p][i].Record]

\* Process p takes the step of mutateNodes.
Mutates(p) == pc[p] = "locked" /\ pc'[p] = "notify"

\* Process p is between the end of mutateNodes and its return.
Notifying(p) == pc[p] \in {"notify", "sink"}

\* obj is a node that is marked unschedulable or reports a Ready condition
\* whose status is not True.
Ineligible(obj) ==
    /\ obj.IsNode
    /\ \/ obj.Unschedulable
       \/ \E i \in 1..Len(obj.Conditions) :
            obj.Conditions[i].Type = "Ready" /\ obj.Conditions[i].Status # "True"

(***************************************************************************)
(* C1: a mutation that leaves the content of both projections unchanged    *)
(* hands mutateNodes' caller no change, the list of changes stays what     *)
(* mutateNodes returned until the operation returns, and OnChange is       *)
(* entered only for an element of that list: so it is not called at all.   *)
(***************************************************************************)
C1_Step ==
    \A p \in Procs :
        /\ (Mutates(p) /\ \A k \in BOOLEAN : Content(nodes, k) = Content(nodes', k))
                => changes'[p] = <<>>
        /\ (Notifying(p) /\ op[p] \in MutatingOps) => changes'[p] = changes[p]
        /\ (op[p] \in MutatingOps /\ pc'[p] = "sink") => Len(sent'[p]) < Len(changes'[p])

C1_NotificationMinimality == [][C1_Step]_vars

\* An Update of a node that reports addresses has returned without any notification.
C1_Witness ==
    \E p \in Procs :
        /\ pc[p] = "done" /\ op[p] = "update"
        /\ node[p].External # <<>>
        /\ changes[p] = <<>> /\ sent[p] = <<>>

(***************************************************************************)
(* C2: the changes of a mutation are one record for each projection kind   *)
(* whose content differs after it, and none for the other kinds; each      *)
(* record is the projection of its kind of the table after the mutation;   *)
(* and the records OnChange was called with by the time the operation      *)
(* returns are those changes.                                              *)
(***************************************************************************)
C2_Step ==
    \A p \in Procs :
        Mutates(p) =>
            \A k \in BOOLEAN :
                LET recs == {i \in 1..Len(changes'[p]) : changes'[p][i].IsInternal = k}
                IN  IF Content(nodes, k) # Content(nodes', k)
                    THEN /\ Cardinality(recs) = 1
                         /\ \A i \in recs : IsProjection(changes'[p][i], nodes')
                    ELSE recs = {}

C2_Emitted ==
    \A p \in Procs :
        /\ (op[p] \in MutatingOps /\ pc[p] = "done") => Delivered(p) = changes[p]
        /\ (op[p] \in MutatingOps /\ Notifying(p)) =>
                Delivered(p) = SubSeq(changes[p], 1, Len(sent[p]))

C2_OnePerChangedProjection == [][C2_Step]_vars /\ []C2_Emitted

\* An operation on a table that has members has returned after exactly one
\* notification, of the external projection.
C2_Witness ==
    \E p \in Procs :
        /\ pc[p] = "done" /\ op[p] = "update"
        /\ Len(sent[p]) = 1
        /\ ~sent[p][1].Record.IsInternal
        /\ sent[p][1].Record.IPs # <<>>
        /\ Content(nodes, TRUE) # {}

(***************************************************************************)
(* C3: when a mutation changes both projections, the external record is    *)
(* notified before the internal one.                                       *)
(***************************************************************************)
C3_ExternalFirst ==
    \A p \in Procs :
        (op[p] \in MutatingOps /\ Len(changes[p]) = 2) =>
            ~changes[p][1].IsInternal /\ changes[p][2].IsInternal

(***************************************************************************)
(* C4: when operations run one at a time, a Resync that has returned has   *)
(* called OnChange exactly twice, first with the external and then with    *)
(* the internal projection of the table as it is.                          *)
(***************************************************************************)
C4_ResyncNotifiesBoth ==
    \A p \in Procs :
        (op[p] = "resync" /\ pc[p] = "done") =>
            /\ Len(sent[p]) = 2
            /\ ~sent[p][1].Record.IsInternal /\ IsProjection(sent[p][1].Record, nodes)
            /\ sent[p][2].Record.IsInternal /\ IsProjection(sent[p][2].Record, nodes)

\* A Resync of a table with external and internal addresses has returned,
\* both notifications accepted.
C4_Witness ==
    \E p \in Procs :
        /\ op[p] = "resync" /\ pc[p] = "done"
        /\ \A i \in 1..Len(sent[p]) : sent[p][i].Accepted
        /\ Content(nodes, TRUE) # {} /\ Content(nodes, FALSE) # {}

(***************************************************************************)
(* C5: every record handed to OnChange lists its addresses in strictly     *)
(* ascending order of their canonical texts, hence without duplicates.     *)
(***************************************************************************)
C5_SortedWithoutDuplicates ==
    \A p \in Procs :
        /\ \A i \in 1..Len(sent[p]) : Ascending(sent[p][i].Record.IPs)
        /\ pc[p] = "sink" => Ascending(InSink(p).IPs)

\* Two members report 42.0.0.2 (one of them twice, one as ::ffff:42.0.0.2)
\* and 42.0.0.123, and OnChange got 42.0.0.123 before 42.0.0.2, each once.
C5_Witness ==
    \E p \in Procs :
        /\ \E i \in 1..Len(sent[p]) :
                sent[p][i].Record.IPs = <<IPv4(42, 0, 0, 123), IPv4(42, 0, 0, 2)>>
        /\ \E k \in DOMAIN nodes : Len(nodes[k].External) = 2

(***************************************************************************)
(* C6: the records are a function of the table only: whatever the order in *)
(* which the map is visited, externalRecord (internalRecord) returns the   *)
(* same record, and whatever the order in which the members are put into   *)
(* an empty table, the table is the same.                                  *)
(***************************************************************************)
RECURSIVE PutAll(_, _, _)
PutAll(tbl, from, o) ==
    IF o = <<>> THEN tbl ELSE PutAll(Put(tbl, from[Head(o)]), from, Tail(o))

C6_ProjectionDeterminism ==
    /\ Cardinality(externalRecords(nodes)) = 1
    /\ Cardinality(internalRecords(nodes)) = 1
    /\ \A o \in Orders(DOMAIN nodes) : PutAll(EmptyTable, nodes, o) = nodes

\* The table has two members whose external addresses differ.
C6_Witness ==
    /\ {"host-1", "host-2"} \subseteq DOMAIN nodes
    /\ nodes["host-1"].External # <<>>
    /\ nodes["host-2"].External # <<>>
    /\ Content(nodes, FALSE) # {To16(nodes["host-1"].External[1])}

(***************************************************************************)
(* C7: Add, Update and Replace store an ineligible node under its name     *)
(* with no addresses, so that the projections after the mutation are those *)
(* of the other members, and so are the records notified.                  *)
(***************************************************************************)
\* The object that decides what Replace stores under the name of objs[i].
LastOfName(objs, i) == \A j \in (i + 1)..Len(objs) : toNode(objs[j]).Name # objs[i].Name

C7_Step ==
    \A p \in Procs :
        /\ (Mutates(p) /\ op[p] \in {"add", "update"} /\ Ineligible(arg[p])) =>
                /\ arg[p].Name \in DOMAIN nodes'
                /\ nodes'[arg[p].Name] = Node(arg[p].Name, <<>>, <<>>)
                /\ \A k \in BOOLEAN : Content(nodes', k) = Content(Remove(nodes, arg[p].Name), k)
                /\ \A i \in 1..Len(changes'[p]) :
                        IsProjection(changes'[p][i], Remove(nodes, arg[p].Name))
        /\ (Mutates(p) /\ op[p] = "replace") =>
                \A i \in 1..Len(arg[p]) :
                    (Ineligible(arg[p][i]) /\ LastOfName(arg[p], i)) =>
                        /\ arg[p][i].Name \in DOMAIN nodes'
                        /\ nodes'[arg[p][i].Name] = Node(arg[p][i].Name, <<>>, <<>>)

C7_Eligibility == [][C7_Step]_vars

\* An Update with a node that is not ready has taken the node's addresses
\* out of both projections.
C7_Witness ==
    \E p \in Procs :
        /\ pc[p] = "done" /\ op[p] = "update"
        /\ node[p] = Node("host-1", <<>>, <<>>)
        /\ Len(sent[p]) = 2
        /\ "host-1" \in DOMAIN nodes

(***************************************************************************)
(* C8: an address text that does not parse as an IP address leaves no      *)
(* entry in the node made by toNode, nor in any record handed to OnChange. *)
(***************************************************************************)
HasNil(ips) == \E i \in 1..Len(ips) : ips[i] = NilIP

C8_UnparseableDropped ==
    \A p \in Procs :
        /\ ~HasNil(node[p].Internal) /\ ~HasNil(node[p].External)
        /\ \A i \in 1..Len(changes[p]) : ~HasNil(changes[p][i].IPs)

(***************************************************************************)
(* C9: every operation returns nil; the mutation is in the table when      *)
(* mutateNodes ends, before OnChange is called, and no step of the         *)
(* notification (a request accepted, a request abandoned on timeout, the   *)
(* return) changes the table.                                              *)
(***************************************************************************)
C9_Committed ==
    \A p \in Procs :
        /\ pc[p] = "done" => ret[p] = "nil"
        /\ (pc[p] \in {"notify", "sink", "done"} /\ op[p] \in {"add", "update"}) =>
                node[p].Name \in DOMAIN nodes /\ nodes[node[p].Name] = node[p]
        /\ (pc[p] \in {"notify", "sink", "done"} /\ op[p] = "delete") =>
                node[p].Name \notin DOMAIN nodes

C9_Step ==
    \A p \in Procs :
        /\ Mutates(p) => sent'[p] = <<>>
        /\ (Mutates(p) /\ op[p] = "replace") =>
                /\ DOMAIN nodes' = {toNode(arg[p][i]).Name : i \in 1..Len(arg[p])}
                /\ \A i \in 1..Len(arg[p]) :
                        LastOfName(arg[p], i) => nodes'[toNode(arg[p][i]).Name] = toNode(arg[p][i])
        /\ (pc[p] \in {"notify", "sink", "done"} /\ pc'[p] # pc[p]) => nodes' = nodes

C9_InfallibleNoRollback == []C9_Committed /\ [][C9_Step]_vars

\* An Add has returned nil after its notification was abandoned on timeout,
\* and the node it added is in the table.
C9_Witness ==
    \E p \in Procs :
        /\ pc[p] = "done" /\ op[p] = "add" /\ ret[p] = "nil"
        /\ \E i \in 1..Len(sent[p]) : ~sent[p][i].Accepted
        /\ node[p].External # <<>>
        /\ nodes[node[p].Name] = node[p]

(***************************************************************************)
(* C10: a process that is inside OnChange does not hold the lock, so the   *)
(* lock is free, or held by a process that is inside mutateNodes, whenever *)
(* some process is inside OnChange and another waits for the lock.         *)
(***************************************************************************)
C10_NotifyOutsideLock ==
    \A p \in Procs :
        pc[p] = "sink" =>
            /\ lock # p
            /\ \A q \in Procs \ {p} :
                    /\ pc[q] = "mutate" => (lock = NoProc \/ (lock \in Procs /\ pc[lock] = "locked"))
                    /\ pc[q] = "locked" => lock = q

\* One process is inside OnChange, its context expired, while the other
\* holds the lock.
C10_Witness ==
    \E p, q \in Procs :
        /\ pc[p] = "sink" /\ ctxDone[p]
        /\ pc[q] = "locked" /\ lock = q

(***************************************************************************)
(* C11: every operation returns: one that runs leads to one that has       *)
(* returned, also when the consumer never takes the request (the store     *)
(* takes its steps and the timeout elapses, OnChange is left to itself).   *)
(***************************************************************************)
C11_EveryOperationReturns ==
    \A p \in SeqProcs : (pc[p] \notin {"idle", "done"}) ~> (pc[p] = "done")

C12_Step ==
    \A p \in Procs :
        /\ (pc[p] = "idle" /\ pc'[p] # "idle") => ~ctxDone'[p]
        /\ (ctxDone[p] /\ pc'[p] # "idle") => ctxDone'[p]

C13_Step ==
    /\ nodes' # nodes => \E p \in Procs : Mutates(p)
    /\ \A p \in Procs :
        (Mutates(p) /\ op[p] \in {"add", "update", "delete"}) =>
            /\ \A k \in (DOMAIN nodes \cup DOMAIN nodes') \ {node[p].Name} :
                    k \in DOMAIN nodes /\ k \in DOMAIN nodes' /\ nodes'[k] = nodes[k]
            /\ op[p] \in {"add", "update"} =>
                    node[p].Name \in DOMAIN nodes' /\ nodes'[node[p].Name] = node[p]
            /\ op[p] = "delete" => node[p].Name \notin DOMAIN nodes'

C13_OneWriter ==
    /\ Cardinality({p \in Procs : pc[p] = "locked"}) <= 1
    /\ \A p \in Procs : pc[p] = "locked" => lock = p

C13_NoLostUpdate == []C13_OneWriter /\ [][C13_Step]_vars

\* Two concurrent Adds of different names have both returned, and both
\* nodes are in the table.
C13_Witness ==
    /\ \A p \in Procs : pc[p] = "done" /\ op[p] = "add"
    /\ node["p1"].Name # node["p2"].Name
    /\ \A p \in Procs : node[p].Name \in DOMAIN nodes /\ nodes[node[p].Name] = node[p]

(***************************************************************************)
(* C14: a process that reads the table holds the lock.                     *)
(***************************************************************************)
C14_LockDiscipline ==
    \A p \in Procs : pc[p] \in {"resync_ext", "resync_int"} => lock = p

(***************************************************************************)
(* Definitions the properties of UpdateDNS are stated with                 *)
(***************************************************************************)
\* The elements of a sequence.
Elems(q) == {q[i] : i \in 1..Len(q)}

\* The texts of the desired addresses.
DesiredTexts == {IPString(addresses[i]) : i \in 1..Len(addresses)}

\* The provider calls of the running UpdateDNS of one kind.
CallsOf(o) == {i \in 1..Len(calls) : calls[i].Op = o}

\* The data of the A and AAAA records of a name in the zone.
ZoneData(name) == {r.Data : r \in {q \in zone : q.Type \in {"A", "AAAA"} /\ q.Name = name}}

\* getRecords has returned without error: a page was the last one.
FetchSucceeded == \E i \in CallsOf("list") : calls[i].OK /\ calls[i].Last

(***************************************************************************)
(* C15: where UpdateDNS calls diffDNS, toCreate is the desired addresses   *)
(* whose text is no key of existing, in their order, and toDelete holds,   *)
(* once each, the ids of the keys of existing that are the text of no      *)
(* desired address; an address in 4-byte or in 16-byte form whose text is  *)
(* a key of existing is not created and the id under its key not deleted.  *)
(***************************************************************************)
C15_Step ==
    (dpc = "Diffing" /\ dpc' = "Creating") =>
        LET missing == {i \in 1..Len(addresses) : IPString(addresses[i]) \notin DOMAIN existing}
            stale == {k \in DOMAIN existing : \A i \in 1..Len(addresses) : IPString(addresses[i]) # k}
        IN  /\ Len(toCreate') = Cardinality(missing)
            /\ \E f \in [1..Len(toCreate') -> missing] :
                /\ \A i, j \in 1..Len(toCreate') : i < j => f[i] < f[j]
                /\ \A i \in 1..Len(toCreate') : toCreate'[i] = addresses[f[i]]
            /\ Elems(toDelete') = {existing[k] : k \in stale}
            /\ Len(toDelete') = Cardinality(Elems(toDelete'))
            /\ \A i \in 1..Len(addresses) :
                IPString(To16(addresses[i])) \in DOMAIN existing =>
                    /\ addresses[i] \notin Elems(toCreate')
                    /\ existing[IPString(To16(addresses[i]))] \notin Elems(toDelete')

C15_DiffCorrect == [][C15_Step]_vars

\* diffDNS has returned something to create and something to delete, and
\* has matched a desired address in 4-byte form with a key of existing.
C15_Witness ==
    /\ dpc = "Creating" /\ CallsOf("create") = {}
    /\ toCreate # <<>> /\ toDelete # <<>>
    /\ \E i \in 1..Len(addresses) :
        Len(addresses[i]) = 4 /\ IPString(addresses[i]) \in DOMAIN existing

C17_Idempotent ==
    (/\ dpc # "Idle" /\ history # <<>>
     /\ history[Len(history)] = [record |-> record, addresses |-> addresses, err |-> "nil"])
        => CallsOf("create") \cup CallsOf("delete") = {}

(***************************************************************************)
(* C18: when UpdateDNS of a record that is not "" has returned nil, the    *)
(* data of the A and AAAA records of that name in the zone are the texts   *)
(* of the desired addresses.                                               *)
(***************************************************************************)
C18_Converged ==
    (dpc = "Done" /\ err = "nil" /\ record # "") => ZoneData(record) = DesiredTexts

(***************************************************************************)
(* C19: a CreateRecord or DeleteRecord call that fails is the last call of *)
(* its UpdateDNS, which returns the error of that call; the records        *)
(* created before are then in the zone and the records deleted before are  *)
(* not, and stay so while the call is over.                                *)
(***************************************************************************)
C19_Failed ==
    \A i \in CallsOf("create") \cup CallsOf("delete") :
        ~calls[i].OK =>
            /\ i = Len(calls)
            /\ dpc = "Failed"
            /\ err = (IF calls[i].Op = "create" THEN "creating record" ELSE "deleting record")

C19_Applied ==
    dpc = "Failed" =>
        /\ \A i \in CallsOf("create") : calls[i].OK =>
            \E r \in zone : r.Type = calls[i].Type /\ r.Name = record /\ r.Data = calls[i].Data
        /\ \A j \in CallsOf("delete") : calls[j].OK => \A r \in zone : r.ID # calls[j].ID

C19_Step == dpc = "Failed" => zone' = zone /\ (calls' = calls \/ dpc' # "Failed")

C19_FailFastNoRollback == []C19_Failed /\ []C19_Applied /\ [][C19_Step]_vars

\* A DeleteRecord call has failed after a CreateRecord call went through,
\* with deletes left to do.
C19_Witness ==
    /\ dpc = "Failed" /\ err = "deleting record"
    /\ \E i \in CallsOf("create") : calls[i].OK
    /\ Len(toDelete) >= 1

(***************************************************************************)
(* C20: UpdateDNS goes from Fetching to Diffing, Creating, Deleting and    *)
(* Done, or from Fetching, Creating or Deleting to Failed; it creates and  *)
(* deletes only after getRecords has returned without error, every create  *)
(* before every delete; Failed carries an error and Done nil; and a call   *)
(* for a record that is not "" returns nil exactly when getRecords         *)
(* succeeded and no provider call failed.                                  *)
(***************************************************************************)
C20_Transitions ==
    { <<"Idle", "Fetching">>, <<"Done", "Fetching">>, <<"Failed", "Fetching">>,
      <<"Idle", "Done">>, <<"Failed", "Done">>,
      <<"Fetching", "Diffing">>, <<"Diffing", "Creating">>,
      <<"Creating", "Deleting">>, <<"Deleting", "Done">>,
      <<"Fetching", "Failed">>, <<"Creating", "Failed">>, <<"Deleting", "Failed">> }

C20_Step ==
    /\ dpc' # dpc => <<dpc, dpc'>> \in C20_Transitions
    /\ (dpc \in {"Idle", "Done", "Failed"} /\ dpc' = "Done") => record' = ""

C20_Calls ==
    /\ (CallsOf("create") \cup CallsOf("delete") # {}) =>
            FetchSucceeded /\ \A i \in CallsOf("list") : calls[i].OK
    /\ \A i \in CallsOf("list"), j \in CallsOf("create") \cup CallsOf("delete") : i < j
    /\ \A i \in CallsOf("create"), j \in CallsOf("delete") : i < j
    /\ \A i \in 1..Len(calls) : ~calls[i].OK => dpc = "Failed" /\ i = Len(calls)
    /\ dpc = "Failed" => err \notin {"nil", "none"}
    /\ dpc = "Done" => err = "nil"
    /\ (dpc \in {"Done", "Failed"} /\ record # "") =>
            (err = "nil" <=> (FetchSucceeded /\ \A i \in 1..Len(calls) : calls[i].OK))

C20_StateMachine == []C20_Calls /\ [][C20_Step]_vars

\* A call has gone through all its positions, creating and deleting.
C20_Witness ==
    /\ dpc = "Done" /\ record # ""
    /\ CallsOf("create") # {} /\ CallsOf("delete") # {}

(***************************************************************************)
(* C21: one UpdateDNS call makes at most MaxPages list calls, for the      *)
(* pages 0, 1, 2, ... in turn, and none after a page that is the last one; *)
(* when MaxPages pages were listed and none was the last one, the call is  *)
(* Failed with the error of too many pages and has made no create and no   *)
(* delete call.                                                            *)
(***************************************************************************)
TooManyPages == "get existing records: more than 100 pages!"

C21_PagesBounded ==
    /\ Cardinality(CallsOf("list")) <= MaxPages
    /\ \A i \in CallsOf("list") : calls[i].Page = i - 1
    /\ \A i \in CallsOf("list") :
        (calls[i].OK /\ calls[i].Last) => \A j \in CallsOf("list") : j <= i
    /\ (/\ dpc # "Fetching"
        /\ Cardinality(CallsOf("list")) = MaxPages
        /\ \A i \in CallsOf("list") : calls[i].OK /\ ~calls[i].Last)
            => dpc = "Failed" /\ err = TooManyPages
    /\ err = TooManyPages =>
        /\ Cardinality(CallsOf("list")) = MaxPages
        /\ CallsOf("create") \cup CallsOf("delete") = {}

\* A call has listed MaxPages pages and failed.
C21_Witness ==
    /\ dpc = "Failed" /\ err = TooManyPages
    /\ Len(calls) = MaxPages /\ calls[MaxPages].OK

(***************************************************************************)
(* C22: UpdateDNS with record "" returns nil and makes no provider call,   *)
(* whatever the addresses; the zone stays as it is.                        *)
(***************************************************************************)
C22_Returned ==
    (dpc # "Idle" /\ record = "") => dpc = "Done" /\ err = "nil" /\ calls = <<>>

C22_Step == record' = "" => zone' = zone

C22_EmptyNameNoOp == []C22_Returned /\ [][C22_Step]_vars

\* A call with record "" and addresses to publish has returned, the zone
\* holding records.
C22_Witness ==
    /\ dpc = "Done" /\ record = ""
    /\ addresses # <<>> /\ zone # {}

(***************************************************************************)
(* C23: once ctx is done, no provider call of the UpdateDNS goes through   *)
(* and the zone does not change: a call made then fails, and UpdateDNS is  *)
(* Failed with it; while provider calls remain to be made, the call cannot *)
(* get to Done, and Failed carries an error.                               *)
(***************************************************************************)
CallsRemain ==
    \/ dpc = "Fetching"
    \/ dpc = "Diffing" /\ \E d \in diffDNS(addresses, existing) : d.toCreate # <<>> \/ d.toDelete # <<>>
    \/ dpc \in {"Creating", "Deleting"} /\ (toCreate # <<>> \/ toDelete # <<>>)

C23_Step ==
    cancelled =>
        /\ zone' = zone
        /\ Len(calls') = Len(calls) + 1 => ~calls'[Len(calls')].OK /\ dpc' = "Failed"
        /\ CallsRemain => (dpc' = "Failed" \/ CallsRemain')

C23_CancellationFatal == [](dpc = "Failed" => err \notin {"nil", "none"}) /\ [][C23_Step]_vars

\* A call was cancelled after a create went through, and the next create
\* failed.
C23_Witness ==
    /\ dpc = "Failed" /\ cancelled /\ err = "creating record"
    /\ \E i \in CallsOf("create") : calls[i].OK

(***************************************************************************)
(* C28: no two CreateRecord calls of one UpdateDNS carry the same data.    *)
(***************************************************************************)
C28_OneCreatePerAddress ==
    \A i, j \in CallsOf("create") : i # j => calls[i].Data # calls[j].Data

(***************************************************************************)
(* C29: what getRecords counts as existing are A and AAAA records of the   *)
(* name `record`; every id given to DeleteRecord is the id of one of them; *)
(* a record that leaves the zone is an A or AAAA record of that name.      *)
(***************************************************************************)
OwnRecord(r) == r.Type \in {"A", "AAAA"} /\ r.Name = record

C29_Existing ==
    /\ dpc \in {"Fetching", "Diffing"} =>
        \A k \in DOMAIN existing :
            \E r \in zone : OwnRecord(r) /\ r.ID = existing[k] /\ r.Data = k
    /\ \A id \in Elems(toDelete) : \E k \in DOMAIN existing : existing[k] = id
    /\ \A j \in CallsOf("delete") : \E k \in DOMAIN existing : existing[k] = calls[j].ID

C29_Step == \A r \in zone \ zone' : OwnRecord(r)

C29_OwnRecordsOnly == []C29_Existing /\ [][C29_Step]_vars

\* A call has deleted a record, and the zone still holds a record of
\* another name and a record of the name that is no A or AAAA record.
C29_Witness ==
    /\ dpc = "Done"
    /\ \E j \in CallsOf("delete") : calls[j].OK
    /\ \E r \in zone : r.Name # record
    /\ \E r \in zone : r.Name = record /\ r.Type \notin {"A", "AAAA"}

(***************************************************************************)
(* C24: an operation that has returned has called OnChange for each of     *)
(* its changes, in their order, and OnChange has returned from each call;  *)
(* OnChange runs only within an operation that has not returned.           *)
(***************************************************************************)
C24_Returned ==
    \A p \in Procs :
        pc[p] = "done" =>
            /\ Len(sent[p]) = Len(changes[p])
            /\ \A i \in 1..Len(sent[p]) : sent[p][i].Record = changes[p][i]

C24_Step ==
    \A p \in Procs :
        /\ pc[p] \in {"idle", "done"} => pc'[p] # "sink"
        /\ sent'[p] # sent[p] => (pc[p] = "sink" \/ (pc[p] = "done" /\ sent'[p] = <<>>))

C24_SynchronousDelivery == []C24_Returned /\ [][C24_Step]_vars

\* An operation has returned after two notifications.
C24_Witness == \E p \in Procs : pc[p] = "done" /\ Len(sent[p]) = 2

(***************************************************************************)
(* C25: the table changes only where an operation commits, and then as a   *)
(* map would: Add and Update put the member extracted from the item under  *)
(* the item's name, Delete removes the key of the item's name (nothing     *)
(* when it is absent), Replace leaves exactly the members of the items of  *)
(* its list, the last item of a name standing for that name.               *)
(***************************************************************************)
RefNames(objs) == {objs[i].Name : i \in 1..Len(objs)}

RefLast(objs, name) ==
    objs[CHOOSE i \in 1..Len(objs) :
            objs[i].Name = name /\ \A j \in (i + 1)..Len(objs) : objs[j].Name # name]

RefTable(o, item, tbl) ==
    CASE o \in {"add", "update"} ->
            [k \in DOMAIN tbl \cup {item.Name} |-> IF k = item.Name THEN toNode(item) ELSE tbl[k]]
      [] o = "delete" -> [k \in DOMAIN tbl \ {item.Name} |-> tbl[k]]
      [] o = "replace" -> [k \in RefNames(item) |-> toNode(RefLast(item, k))]

C25_Step ==
    /\ nodes' # nodes => \E p \in Procs : Mutates(p)
    /\ \A p \in Procs : Mutates(p) => nodes' = RefTable(op[p], arg[p], nodes)

C25_TableIsReferenceMap == [][C25_Step]_vars

\* A Delete with an item that is not eligible has removed a member whose
\* addresses were published.
C25_Witness ==
    \E p \in Procs :
        /\ pc[p] = "notify" /\ op[p] = "delete"
        /\ node[p].Name # "" /\ node[p].Internal = <<>> /\ node[p].External = <<>>
        /\ node[p].Name \notin DOMAIN nodes
        /\ changes[p] # <<>>

(***************************************************************************)
(* The consumer's view of the projections.                                 *)
(***************************************************************************)
\* The records internalRecords / externalRecords can give for table tbl.
Projection(internal, tbl) ==
    IF internal THEN internalRecords(tbl) ELSE externalRecords(tbl)

\* The last Record of its kind the consumer took is the projection of the table.
ViewCurrent(k) ==
    /\ \A r \in Projection(k, nodes) : RecordEqual(view[k][1], r)
    /\ IsProjection(view[k][1], nodes)

ProjectionEmpty(k) == \A r \in Projection(k, nodes) : r.IPs = <<>>

\* No operation is running: every call made so far has returned.
AllReturned == \A p \in Procs : pc[p] \in {"idle", "done"}

\* C26: with the operations invoked one at a time and every notification
\* accepted, once an operation has returned, for each kind the
\* notification delivered last equals the current projection, or none of
\* that kind was delivered and the projection is empty.
C26_SequentialViewConsistent ==
    (AllReturned /\ ~missed) =>
        \A k \in BOOLEAN :
            IF view[k] = <<>> THEN ProjectionEmpty(k) ELSE ViewCurrent(k)

\* An operation has just returned, and the consumer holds a record of each
\* kind, the internal one with two addresses.
C26_Witness ==
    /\ AllReturned /\ ~missed
    /\ \E p \in Procs : pc[p] = "done"
    /\ view[TRUE] # <<>> /\ Len(view[TRUE][1].IPs) >= 2
    /\ view[FALSE] # <<>> /\ Len(view[FALSE][1].IPs) >= 1

\* C27: for any interleaving of concurrent Add, Update, Delete and Replace
\* calls whose notifications are all accepted, once all the calls have
\* returned, for each kind that was notified the notification delivered
\* last equals the current projection.
C27_ConcurrentViewConsistent ==
    (AllReturned /\ ~missed) =>
        \A k \in BOOLEAN : view[k] # <<>> => ViewCurrent(k)

====
